---- MODULE Spec2Model ----
(***************************************************************************)
(* Verification model of the declarative form library:                     *)
(*   - SchemaParser (packages/json-form-lib/src/SchemaParser.ts): the      *)
(*     schema validator, the dependency resolver with its cycle check, and *)
(*     parse(), modelled as operators applied to schemas drawn from        *)
(*     bounded families (specification ParserSpec);                        *)
(*   - Form (apps/mobile/components/Form.tsx and the json-form-lib Form):  *)
(*     the form controller, modelled as a state machine over the React     *)
(*     state hooks, the closures of the last render and the submissions    *)
(*     in flight (specification Spec);                                     *)
(*   - FieldRenderer (json-form-lib FieldRenderer.tsx): the field type     *)
(*     registry, the dispatch of render() and the per-field error          *)
(*     boundary (specification RendererSpec);                              *)
(*   - the lifecycle effect of the Form, which calls the external mount    *)
(*     and unmount callbacks (specification LifecycleSpec).                *)
(***************************************************************************)
EXTENDS Integers, Sequences, FiniteSets, TLC

VARIABLES
  \* ---- SchemaParser harness ----
  schema,     \* the schema handed to the parser
  ppc,        \* "start" | "validated" | "resolved" | "parsed" | "off"
  vres,       \* outcome of validate(schema)
  dres,       \* outcome of resolveFieldDependencies(schema)
  pres,       \* outcome of parse(schema)
  \* ---- Form instance ----
  variant,      \* "mobile" (apps/mobile Form.tsx) | "lib" (json-form-lib Form) | "off"
  fschema,      \* schema.fields of the form
  initialValuesProp, \* the initialValues prop of the last render
  initialRef,   \* initialValuesRef.current
  st,           \* hook state with every queued update applied
  rd,           \* hook state of the last render, read by the handler closures
  lateDirty,    \* the setValues updater left to the next render: whether there
                \* is one, and the values its checkDirtyState call will read
  busy,         \* the component has a pending update
  effects,      \* passive effects of the last commit that have not run yet:
                \* "initialize", "silent" (validation), "initialValues"
  stObj,        \* identity of the queued values object: "same" | "init" | "new"
  rdIsInit,     \* the rendered values object is initialValuesRef.current
  timers,       \* pending setTimeout callbacks of handleChange, as the isValid each will set
  subs,         \* handleSubmit calls that have not reached finally (id: the
                \* number of the call; vals: the values of its closure; written:
                \* the values with every update made before the call)
  invoked,      \* calls of the external submit callback so far: the handleSubmit
                \* call that made it, the value map passed, and the handleSubmit
                \* calls that were unfinished when that call was made
  lastOutcome,  \* how a handleSubmit ended since the last call on the form:
                \* "none" | "invalid" | "throws" | "resolved" | "rejected"
  escaped,      \* an exception left handleSubmit
  lastOp,       \* last call made on the form: "mount" | "change" | "validate" |
                \* "reset" | "resetRendered" (reset, then rendered) |
                \* "initialValues" (the snapshot was replaced) | "call" (any
                \* other)
  lastValidate, \* result and input of validate() while it is the last call
  ops,          \* number of calls made
  \* ---- FieldRenderer instance ----
  components,   \* FieldTypeRegistry.components: the Map as its entries in insertion order
  regLog,       \* the registerFieldType and clearRegistry calls made so far
  rfields,      \* the fields of the form drawn with this renderer
  elements,     \* the elements returned by the last renderFields call
  boundaries,   \* state.hasError of the FieldErrorBoundary mounted for each field id
  screen,       \* what each field of the form shows after the last render
  propagated,   \* an exception left the render of the form
  rlast,        \* last call made on the renderer: "new" | "register" | "clear" |
                \* "unregister" | "render" | "mount" (a Form mounted) | "off"
  rops,         \* number of calls made on the renderer
  \* ---- lifecycle of a mounted Form ----
  formMounted,  \* "no" (not mounted yet) | "mounted" | "unmounted" | "off"
  eventsProp,   \* identity of the events object of the last render
  schemaProp,   \* identity of the schema object of the last render
  lifeLog,      \* the calls of events.mount and events.unmount made so far
  lifeOps       \* number of renders of the Form

pvars == <<schema, ppc, vres, dres, pres>>

rvars == <<components, regLog, rfields, elements, boundaries, screen, propagated, rlast, rops>>

lvars == <<formMounted, eventsProp, schemaProp, lifeLog, lifeOps>>

fvars == <<variant, fschema, initialValuesProp, initialRef, st, rd, lateDirty, busy, effects,
           stObj, rdIsInit,
           timers, subs, invoked, lastOutcome, escaped, lastOp, lastValidate, ops>>

\* the variables each component leaves alone
notParser == <<fvars, rvars, lvars>>
notForm == <<pvars, rvars, lvars>>
notRenderer == <<pvars, fvars, lvars>>
notLifecycle == <<pvars, fvars, rvars>>

(***************************************************************************)
(* Generic sequence helpers, after the Array.prototype methods used        *)
(***************************************************************************)
RECURSIVE Flatten(_)
Flatten(ss) == IF ss = <<>> THEN <<>> ELSE Head(ss) \o Flatten(Tail(ss))

Range(s) == {s[i] : i \in 1..Len(s)}

\* Array.prototype.includes
Includes(s, x) == \E i \in 1..Len(s) : s[i] = x

\* Array.prototype.indexOf, 1-based (0 when absent)
IndexOf(s, x) ==
  IF Includes(s, x) THEN CHOOSE i \in 1..Len(s) : s[i] = x /\ \A j \in 1..(i-1) : s[j] /= x
  ELSE 0

\* Array.prototype.join(", ")
RECURSIVE Join(_)
Join(s) ==
  IF s = <<>> THEN ""
  ELSE IF Len(s) = 1 THEN s[1]
  ELSE s[1] \o ", " \o Join(Tail(s))

\* push x unless already included
PushUnique(s, x) == IF Includes(s, x) THEN s ELSE Append(s, x)

\* JavaScript truthiness of an optional string attribute; "" stands for an
\* absent (undefined) or empty attribute, both falsy.
Truthy(s) == s /= ""

(***************************************************************************)
(* Schema values                                                           *)
(***************************************************************************)
ListNames == <<"show", "hide", "enable", "disable", "require">>

NoConditional == [show |-> <<>>, hide |-> <<>>, enable |-> <<>>,
                  disable |-> <<>>, require |-> <<>>]

\* A ConditionalRule {field, operator, customRule?}
Rule(f, op, custom) == [field |-> f, operator |-> op, customRule |-> custom]
Ref(f) == Rule(f, "equals", FALSE)

\* A field object with every attribute the parser reads.
BaseField ==
  [kind |-> "object", hasId |-> FALSE, id |-> "", label |-> "", type |-> "",
   required |-> FALSE,
   options |-> "absent", optionDeps |-> <<>>,
   minIsNum |-> FALSE, maxIsNum |-> FALSE, max |-> 0,
   hasItemSchema |-> FALSE, subFields |-> "absent",
   hasConditional |-> FALSE, conditional |-> NoConditional]

\* a field whose id is the string id (possibly the empty string)
Fld(id, label, type) ==
  [BaseField EXCEPT !.hasId = TRUE, !.id = id, !.label = label, !.type = type]

\* the same field without an id property
WithoutId(f) == [f EXCEPT !.hasId = FALSE, !.id = ""]

WithCond(f, c) == [f EXCEPT !.hasConditional = TRUE, !.conditional = c]

\* elements of a fields array that are not objects
NullElem == [BaseField EXCEPT !.kind = "null"]
UndefElem == [BaseField EXCEPT !.kind = "undefined"]
PrimElem == [BaseField EXCEPT !.kind = "primitive"]

\* error entries: the message text and the values interpolated into it
Err(text, interp) == [text |-> text, interp |-> interp]

(***************************************************************************)
(* SchemaParser.validateConditionalRules                                   *)
(***************************************************************************)
ruleErrors(rule, ruleName, index, availableFieldIds) ==
  LET at == ruleName \o "[" \o ToString(index) \o "]" IN
  (IF ~Truthy(rule.field)
     THEN <<Err(at \o ".field is required", <<ruleName, ToString(index)>>)>>
     ELSE IF ~Includes(availableFieldIds, rule.field)
       THEN <<Err(at \o ".field references unknown field: " \o rule.field,
                  <<ruleName, ToString(index), rule.field>>)>>
       ELSE <<>>)
  \o (IF ~Truthy(rule.operator)
        THEN <<Err(at \o ".operator is required", <<ruleName, ToString(index)>>)>>
        ELSE <<>>)
  \o (IF rule.operator = "custom" /\ ~rule.customRule
        THEN <<Err(at \o " with custom operator requires customRule function",
                   <<ruleName, ToString(index)>>)>>
        ELSE <<>>)

validateRuleArray(rules, ruleName, availableFieldIds) ==
  Flatten([i \in 1..Len(rules) |->
             ruleErrors(rules[i], ruleName, i - 1, availableFieldIds)])

validateConditionalRules(conditional, availableFieldIds) ==
  validateRuleArray(conditional.show, "conditional.show", availableFieldIds)
  \o validateRuleArray(conditional.hide, "conditional.hide", availableFieldIds)
  \o validateRuleArray(conditional.enable, "conditional.enable", availableFieldIds)
  \o validateRuleArray(conditional.disable, "conditional.disable", availableFieldIds)
  \o validateRuleArray(conditional.require, "conditional.require", availableFieldIds)

(***************************************************************************)
(* SchemaParser.validate                                                   *)
(***************************************************************************)
\* the per-field checks of the first forEach (index is 0-based)
fieldErrors(field, index) ==
  LET at == "fields[" \o ToString(index) \o "]"
      ix == <<ToString(index)>> IN
  (IF ~Truthy(field.id) THEN <<Err(at \o ".id is required", ix)>> ELSE <<>>)
  \o (IF ~Truthy(field.label) THEN <<Err(at \o ".label is required", ix)>> ELSE <<>>)
  \o (IF ~Truthy(field.type) THEN <<Err(at \o ".type is required", ix)>> ELSE <<>>)
  \o (CASE field.type \in {"select", "multiselect"} ->
             IF field.options = "absent"
               THEN <<Err(at \o " of type " \o field.type \o " requires options",
                          <<ToString(index), field.type>>)>>
               ELSE <<>>
        [] field.type = "radio" ->
             IF field.options /= "array"
               THEN <<Err(at \o " of type radio requires options array", ix)>>
               ELSE <<>>
        [] field.type = "slider" ->
             IF ~field.minIsNum \/ ~field.maxIsNum
               THEN <<Err(at \o " of type slider requires min and max numbers", ix)>>
               ELSE <<>>
        [] field.type = "rating" ->
             IF ~field.maxIsNum \/ field.max <= 0
               THEN <<Err(at \o " of type rating requires max number > 0", ix)>>
               ELSE <<>>
        [] field.type = "array" ->
             IF ~field.hasItemSchema
               THEN <<Err(at \o " of type array requires itemSchema", ix)>>
               ELSE <<>>
        [] field.type = "object" ->
             IF field.subFields /= "array"
               THEN <<Err(at \o " of type object requires fields array", ix)>>
               ELSE <<>>
        [] OTHER -> <<>>)

\* schema.fields.map((field) => field.id).filter(Boolean)
fieldIds(fields) ==
  LET all == [i \in 1..Len(fields) |-> fields[i].id]
      keep(id) == Truthy(id)
  IN SelectSeq(all, keep)

RECURSIVE filterDuplicates(_, _)
\* ids.filter((id, index) => ids.indexOf(id) !== index), from position k
filterDuplicates(ids, k) ==
  IF k > Len(ids) THEN <<>>
  ELSE (IF IndexOf(ids, ids[k]) /= k THEN <<ids[k]>> ELSE <<>>)
       \o filterDuplicates(ids, k + 1)

duplicateIds(ids) == filterDuplicates(ids, 1)

\* reading a property of null or undefined raises a TypeError
DerefThrows(fields) == \E i \in 1..Len(fields) : fields[i].kind \in {"null", "undefined"}

Verdict(errors) == [threw |-> FALSE, isValid |-> errors = <<>>, errors |-> errors]
ValidateThrew == [threw |-> TRUE, isValid |-> FALSE, errors |-> <<>>]

validate(s) ==
  IF s.kind \in {"null", "undefined"}
    THEN Verdict(<<Err("Schema is required", <<>>)>>)
  ELSE
    LET idErr == IF ~Truthy(s.id) THEN <<Err("Schema id is required", <<>>)>> ELSE <<>> IN
    IF s.fieldsKind /= "array"
      THEN Verdict(idErr \o <<Err("Schema fields must be an array", <<>>)>>)
    ELSE IF DerefThrows(s.fields)
      THEN ValidateThrew
    ELSE
      LET perField == Flatten([i \in 1..Len(s.fields) |-> fieldErrors(s.fields[i], i - 1)])
          ids == fieldIds(s.fields)
          dups == duplicateIds(ids)
          dupErr == IF Len(dups) > 0
                      THEN <<Err("Duplicate field IDs found: " \o Join(dups), dups)>>
                      ELSE <<>>
          condErr == Flatten([i \in 1..Len(s.fields) |->
                        IF s.fields[i].hasConditional
                          THEN validateConditionalRules(s.fields[i].conditional, ids)
                          ELSE <<>>])
      IN Verdict(idErr \o perField \o dupErr \o condErr)

(***************************************************************************)
(* SchemaParser.extractFieldDependencies                                   *)
(***************************************************************************)
RECURSIVE addRuleDependencies(_, _)
\* rules.forEach(rule => rule.field && !dependencies.includes(rule.field)
\*                        && dependencies.push(rule.field))
addRuleDependencies(dependencies, rules) ==
  IF rules = <<>> THEN dependencies
  ELSE addRuleDependencies(
         IF Truthy(Head(rules).field) THEN PushUnique(dependencies, Head(rules).field)
         ELSE dependencies,
         Tail(rules))

RECURSIVE addOptionDependencies(_, _)
\* selectField.options.dependencies.forEach(dep => ... push unless included)
addOptionDependencies(dependencies, deps) ==
  IF deps = <<>> THEN dependencies
  ELSE addOptionDependencies(PushUnique(dependencies, Head(deps)), Tail(deps))

extractFieldDependencies(field) ==
  LET c == field.conditional
      fromRules ==
        IF field.hasConditional
          THEN addRuleDependencies(
                 addRuleDependencies(
                   addRuleDependencies(
                     addRuleDependencies(
                       addRuleDependencies(<<>>, c.show), c.hide), c.enable),
                   c.disable), c.require)
          ELSE <<>>
  IN IF field.type \in {"select", "multiselect"} /\ field.options = "dynamic"
       THEN addOptionDependencies(fromRules, field.optionDeps)
       ELSE fromRules

(***************************************************************************)
(* SchemaParser.validateDependencyGraph                                    *)
(* A DependencyGraph is a plain object. keys and deps are its own          *)
(* enumerable properties in the order Object.keys lists them: the keys     *)
(* that are array indices first, in ascending numeric order, then the      *)
(* other keys in insertion order. proto is the array that an assignment to *)
(* the key "__proto__" made the object's prototype, <<>> while the         *)
(* prototype is Object.prototype.                                          *)
(***************************************************************************)
EmptyGraph == [keys |-> <<>>, deps |-> <<>>, proto |-> <<>>]

CharsOf(s) == [i \in 1..Len(s) |-> SubSeq(s, i, i)]

DigitChars == {"0", "1", "2", "3", "4", "5", "6", "7", "8", "9"}

DigitValue(c) == CHOOSE n \in 0..9 : ToString(n) = c

\* s < t for two digit strings of the same length
DigitsLess(s, t) ==
  \E i \in 1..Len(s) :
     /\ \A j \in 1..(i - 1) : SubSeq(s, j, j) = SubSeq(t, j, j)
     /\ DigitValue(SubSeq(s, i, i)) < DigitValue(SubSeq(t, i, i))

\* a property key that is an array index: the canonical decimal form of an
\* integer in 0 .. 2^32 - 2
IsArrayIndex(key) ==
  /\ Len(key) \in 1..10
  /\ \A i \in 1..Len(key) : SubSeq(key, i, i) \in DigitChars
  /\ Len(key) > 1 => SubSeq(key, 1, 1) /= "0"
  /\ Len(key) = 10 => ~DigitsLess("4294967294", key)

\* numeric order of two array indices
IndexLess(s, t) == Len(s) < Len(t) \/ (Len(s) = Len(t) /\ DigitsLess(s, t))

\* the string members of Object.prototype other than the accessor __proto__
ObjectPrototypeMembers ==
  {"constructor", "hasOwnProperty", "isPrototypeOf", "propertyIsEnumerable",
   "toLocaleString", "toString", "valueOf", "__defineGetter__",
   "__defineSetter__", "__lookupGetter__", "__lookupSetter__"}

\* the string members of Array.prototype that are functions
ArrayPrototypeMembers ==
  {"at", "concat", "copyWithin", "entries", "every", "fill", "filter", "find",
   "findIndex", "findLast", "findLastIndex", "flat", "flatMap", "forEach",
   "includes", "indexOf", "join", "keys", "lastIndexOf", "map", "pop", "push",
   "reduce", "reduceRight", "reverse", "shift", "slice", "some", "sort",
   "splice", "toReversed", "toSorted", "toSpliced", "unshift", "values", "with"}

ArrayValue(items) == [kind |-> "array", items |-> items]
\* a value that `for (const dep of deps)` cannot iterate
NotIterable(kind) == [kind |-> kind, items |-> <<>>]

\* dependencies[fieldId] || []: an own property, else what the prototype
\* chain gives (a member of Object.prototype, or of the array installed as
\* prototype and of Array.prototype behind it), else the empty array
depsOf(g, fieldId) ==
  IF Includes(g.keys, fieldId) THEN ArrayValue(g.deps[IndexOf(g.keys, fieldId)])
  ELSE IF fieldId = "__proto__"
    THEN IF g.proto = <<>> THEN NotIterable("object") ELSE ArrayValue(g.proto)
  ELSE IF g.proto /= <<>> /\ (\E i \in 1..Len(g.proto) : ToString(i - 1) = fieldId)
    THEN LET element == g.proto[CHOOSE i \in 1..Len(g.proto) : ToString(i - 1) = fieldId]
         IN IF Truthy(element) THEN [kind |-> "string", items |-> CharsOf(element)]
            ELSE ArrayValue(<<>>)
  ELSE IF g.proto /= <<>> /\ fieldId = "length" THEN NotIterable("number")
  ELSE IF g.proto /= <<>> /\ fieldId \in ArrayPrototypeMembers THEN NotIterable("function")
  ELSE IF fieldId \in ObjectPrototypeMembers THEN NotIterable("function")
  ELSE ArrayValue(<<>>)

IsIterable(value) == value.kind \in {"array", "string"}

InsertAt(s, i, x) == SubSeq(s, 1, i - 1) \o <<x>> \o SubSeq(s, i, Len(s))

\* dependencies[fieldId] = fieldDeps: an existing own property keeps its
\* place; "__proto__" is the accessor of Object.prototype and replaces the
\* prototype instead of creating a property; a new array index goes among
\* the array indices in numeric order, any other new key goes last
setDeps(g, fieldId, fieldDeps) ==
  IF Includes(g.keys, fieldId)
    THEN [g EXCEPT !.deps[IndexOf(g.keys, fieldId)] = fieldDeps]
  ELSE IF fieldId = "__proto__"
    THEN [g EXCEPT !.proto = fieldDeps]
  ELSE IF IsArrayIndex(fieldId)
    THEN LET at == 1 + Cardinality({i \in 1..Len(g.keys) :
                                      IsArrayIndex(g.keys[i]) /\ IndexLess(g.keys[i], fieldId)})
         IN [g EXCEPT !.keys = InsertAt(g.keys, at, fieldId),
                      !.deps = InsertAt(g.deps, at, fieldDeps)]
  ELSE [g EXCEPT !.keys = Append(g.keys, fieldId), !.deps = Append(g.deps, fieldDeps)]

\* recursionStack.delete(fieldId) once every dependency has been explored
PopStack(recursionStack, fieldId) == recursionStack \ {fieldId}

RECURSIVE hasCycle(_, _, _), hasCycleIn(_, _, _)
\* dfs = [found, threw, visited, recursionStack]; hasCycle returns dfs after
\* the call; threw: the for-of met a value that is not iterable (TypeError)
hasCycle(g, fieldId, dfs) ==
  IF fieldId \in dfs.recursionStack THEN [dfs EXCEPT !.found = TRUE]
  ELSE IF fieldId \in dfs.visited THEN [dfs EXCEPT !.found = FALSE]
  ELSE
    LET entered == [found |-> FALSE, threw |-> FALSE,
                    visited |-> dfs.visited \cup {fieldId},
                    recursionStack |-> dfs.recursionStack \cup {fieldId}]
        deps == depsOf(g, fieldId)
    IN IF ~IsIterable(deps) THEN [entered EXCEPT !.threw = TRUE]
       ELSE LET after == hasCycleIn(g, deps.items, entered)
            IN IF after.found \/ after.threw THEN after
               ELSE [after EXCEPT !.recursionStack = PopStack(after.recursionStack, fieldId)]

\* for (const dep of deps) if (hasCycle(dep)) return true
hasCycleIn(g, deps, dfs) ==
  IF deps = <<>> THEN [dfs EXCEPT !.found = FALSE]
  ELSE LET r == hasCycle(g, Head(deps), dfs)
       IN IF r.found \/ r.threw THEN r ELSE hasCycleIn(g, Tail(deps), r)

NoError == [code |-> "none", fieldId |-> ""]
CircularDependencyError(fieldId) == [code |-> "CIRCULAR_DEPENDENCY_ERROR", fieldId |-> fieldId]
\* an exception that is not a FormError
TypeError == [code |-> "TypeError", fieldId |-> ""]

RECURSIVE checkKeys(_, _, _)
\* for (const fieldId of Object.keys(dependencies)) if (hasCycle(fieldId)) throw
checkKeys(g, keys, dfs) ==
  IF keys = <<>> THEN NoError
  ELSE LET r == hasCycle(g, Head(keys), dfs)
       IN IF r.threw THEN TypeError
          ELSE IF r.found THEN CircularDependencyError(Head(keys))
          ELSE checkKeys(g, Tail(keys), r)

validateDependencyGraph(g) ==
  checkKeys(g, g.keys,
            [found |-> FALSE, threw |-> FALSE, visited |-> {}, recursionStack |-> {}])

(***************************************************************************)
(* SchemaParser.resolveFieldDependencies                                   *)
(***************************************************************************)
\* the key of dependencies[field.id]: an absent id is the key "undefined"
PropertyKey(field) == IF field.hasId THEN field.id ELSE "undefined"

RECURSIVE buildGraph(_, _)
\* schema.fields.forEach: dependencies[field.id] = fieldDeps when not empty
buildGraph(g, fields) ==
  IF fields = <<>> THEN g
  ELSE LET fieldDeps == extractFieldDependencies(Head(fields))
       IN buildGraph(IF Len(fieldDeps) > 0
                       THEN setDeps(g, PropertyKey(Head(fields)), fieldDeps)
                       ELSE g,
                     Tail(fields))

\* [error, dependencies]: the graph is returned only when no error is thrown
resolveFieldDependencies(s) ==
  LET g == buildGraph(EmptyGraph, s.fields)
      e == validateDependencyGraph(g)
  IN [error |-> e, dependencies |-> IF e.code = "none" THEN g ELSE EmptyGraph]

(***************************************************************************)
(* SchemaParser.parse and its helpers                                      *)
(***************************************************************************)
extractFieldConditionalRules(field) ==
  IF field.hasConditional
    THEN field.conditional.show \o field.conditional.hide \o field.conditional.enable
         \o field.conditional.disable \o field.conditional.require
    ELSE <<>>

extractConditionalRules(fields) ==
  Flatten([i \in 1..Len(fields) |-> extractFieldConditionalRules(fields[i])])

\* the zod schema kind chosen for a field type
getBaseSchemaForFieldType(field) ==
  CASE field.type \in {"text", "password", "email", "textarea", "select"} -> "string"
    [] field.type \in {"number", "slider", "rating"} -> "number"
    [] field.type \in {"checkbox", "switch"} -> "boolean"
    [] field.type \in {"date", "time", "datetime"} -> "date"
    [] field.type = "multiselect" -> "array(string)"
    [] field.type = "array" -> "array(any)"
    [] field.type = "object" -> "record(any)"
    [] OTHER -> "any"

\* no field of the modelled schemas carries an explicit validation.schema
buildFieldValidationSchema(field) ==
  LET base == getBaseSchemaForFieldType(field) IN
  [base |-> base,
   min1 |-> field.required /\ base = "string",
   optional |-> ~field.required]

parseFields(fields) ==
  [i \in 1..Len(fields) |->
     [id |-> fields[i].id,
      dependencies |-> extractFieldDependencies(fields[i]),
      conditionalRules |-> extractFieldConditionalRules(fields[i]),
      validationSchema |-> buildFieldValidationSchema(fields[i])]]

ParseOutcome(code, fieldId, errors, fields, deps, rules) ==
  [code |-> code, fieldId |-> fieldId, errors |-> errors,
   fields |-> fields, dependencies |-> deps, conditionalRules |-> rules]

parse(s) ==
  LET v == validate(s) IN
  IF v.threw
    THEN ParseOutcome("TypeError", "", <<>>, <<>>, EmptyGraph, <<>>)
  ELSE IF ~v.isValid
    THEN ParseOutcome("SCHEMA_VALIDATION_ERROR", "", v.errors, <<>>, EmptyGraph, <<>>)
  ELSE
    LET d == resolveFieldDependencies(s) IN
    IF d.error.code /= "none"
      THEN ParseOutcome(d.error.code, d.error.fieldId, <<>>, <<>>, EmptyGraph, <<>>)
      ELSE ParseOutcome("none", "", <<>>, parseFields(s.fields), d.dependencies,
                        extractConditionalRules(s.fields))

(***************************************************************************)
(* Input schemas of the parser harness                                     *)
(***************************************************************************)
\* bounds of the two schema families
MaxGraphFields == 3
MaxStructFields == 2

IdPool == <<"a", "b", "c", "d", "e">>

Schema(id, fields) == [kind |-> "object", id |-> id, fieldsKind |-> "array", fields |-> fields]
NullSchema == [kind |-> "null", id |-> "", fieldsKind |-> "absent", fields |-> <<>>]
UndefinedSchema == [kind |-> "undefined", id |-> "", fieldsKind |-> "absent", fields |-> <<>>]
NonArraySchema(id) == [kind |-> "object", id |-> id, fieldsKind |-> "string", fields |-> <<>>]

\* the ids of a set, in IdPool order
PoolSeq(S) == LET in(x) == x \in S IN SelectSeq(IdPool, in)

\* Graph family: fields IdPool[1..n], all labelled and typed, field i
\* referencing the set refs[i]; the rule list used depends on the position,
\* the third field declaring its references as dynamic-option dependencies
\* and the last of them in an enable rule as well.
graphField(i, refs) ==
  LET rules == [k \in 1..Len(PoolSeq(refs)) |-> Ref(PoolSeq(refs)[k])] IN
  CASE i % 4 = 1 -> WithCond(Fld(IdPool[i], "L", "text"), [NoConditional EXCEPT !.show = rules])
    [] i % 4 = 2 -> WithCond(Fld(IdPool[i], "L", "number"), [NoConditional EXCEPT !.disable = rules])
    [] i % 4 = 3 -> [Fld(IdPool[i], "L", "select") EXCEPT
                       !.options = "dynamic",
                       !.optionDeps = PoolSeq(refs),
                       !.hasConditional = refs /= {},
                       !.conditional = [NoConditional EXCEPT
                                          !.enable = IF rules = <<>> THEN <<>>
                                                    ELSE <<rules[Len(rules)]>>]]
    [] OTHER -> WithCond(Fld(IdPool[i], "L", "checkbox"), [NoConditional EXCEPT !.require = rules])

GraphSchemas ==
  LET ids == {IdPool[i] : i \in 1..MaxGraphFields} IN
  {Schema("f", [i \in 1..MaxGraphFields |-> graphField(i, refs[i])]) :
     refs \in [1..MaxGraphFields -> SUBSET ids]}

\* Structure family: up to MaxStructFields elements drawn from ElemPool.
ElemPool ==
  {NullElem, UndefElem, PrimElem}
  \cup {Fld(id, label, type) : id \in {"", "a", "b"}, label \in {"", "L"}, type \in {"", "text"}}
  \cup {Fld("a", "L", "select"),
        [Fld("a", "L", "select") EXCEPT !.options = "array"],
        [Fld("b", "L", "multiselect") EXCEPT !.options = "dynamic", !.optionDeps = <<"a", "z", "a">>],
        [Fld("b", "L", "radio") EXCEPT !.options = "nonarray"],
        [Fld("a", "L", "slider") EXCEPT !.maxIsNum = TRUE, !.max = 5],
        [Fld("a", "L", "rating") EXCEPT !.maxIsNum = TRUE, !.max = 0],
        [Fld("b", "L", "rating") EXCEPT !.maxIsNum = TRUE, !.max = 5],
        Fld("a", "L", "array"),
        [Fld("b", "L", "object") EXCEPT !.subFields = "nonarray"],
        [Fld("a", "L", "text") EXCEPT !.required = TRUE]}
  \cup {WithCond(Fld("a", "L", "text"), c) : c \in
          {[NoConditional EXCEPT !.show = <<Ref("b")>>],
           [NoConditional EXCEPT !.show = <<Ref("z")>>],
           [NoConditional EXCEPT !.hide = <<Ref("b"), Ref("z")>>],
           [NoConditional EXCEPT !.enable = <<Ref("toString")>>],
           [NoConditional EXCEPT !.disable = <<Ref("z")>>, !.show = <<Ref("b")>>],
           [NoConditional EXCEPT !.require = <<Ref("z")>>, !.hide = <<Ref("b"), Ref("b")>>],
           [NoConditional EXCEPT !.show = <<Rule("", "equals", FALSE)>>],
           [NoConditional EXCEPT !.show = <<Rule("b", "", FALSE)>>],
           [NoConditional EXCEPT !.show = <<Rule("b", "custom", FALSE)>>],
           [NoConditional EXCEPT !.show = <<Rule("b", "custom", TRUE)>>]}}
  \cup {WithCond(Fld("b", "L", "text"), [NoConditional EXCEPT !.require = <<Ref("a")>>]),
        \* no id property: its dependencies are stored under the key "undefined"
        WithCond(WithoutId(Fld("", "L", "text")), [NoConditional EXCEPT !.show = <<Ref("z")>>]),
        \* ids that are array indices, declared in descending order
        WithCond(Fld("2", "L", "text"), [NoConditional EXCEPT !.show = <<Ref("1")>>]),
        WithCond(Fld("1", "L", "text"), [NoConditional EXCEPT !.show = <<Ref("2")>>]),
        \* ids that name members of Object.prototype
        Fld("toString", "L", "text"),
        WithCond(Fld("__proto__", "L", "text"), [NoConditional EXCEPT !.show = <<Ref("a")>>])}

RECURSIVE SeqsUpTo(_, _)
\* all sequences over S of length at most n
SeqsUpTo(S, n) ==
  IF n = 0 THEN {<<>>}
  ELSE LET shorter == SeqsUpTo(S, n - 1)
       IN shorter \cup {Append(q, x) : q \in {r \in shorter : Len(r) = n - 1}, x \in S}

StructSchemas ==
  {NullSchema, UndefinedSchema, NonArraySchema("f"), NonArraySchema("")}
  \cup {Schema(id, fs) : id \in {"", "f"}, fs \in SeqsUpTo(ElemPool, MaxStructFields)}

(***************************************************************************)
(* Form controller (Form.tsx).                                             *)
(*                                                                         *)
(* React semantics the model keeps:                                        *)
(*  - a handler is a closure of the last render: it reads the state of     *)
(*    that render (rd), whatever updates have been queued since;           *)
(*  - setX(v) and setX(updater) queue an update; st is the state the       *)
(*    queue yields when applied in order, and Render commits it;           *)
(*  - an updater function queued while the component has no pending        *)
(*    update may be run at once (eager state), otherwise it runs during    *)
(*    the next render, after every update queued before that render: the   *)
(*    setIsDirty call made inside the setValues updater then lands after   *)
(*    the updates queued by later handlers (lateDirty);                    *)
(*  - effects run right after the commit of the render that changed their  *)
(*    dependencies;                                                        *)
(*  - setTimeout callbacks and the continuations of an awaited promise     *)
(*    run later, interleaved with renders and further calls.               *)
(*                                                                         *)
(*  - passive effects (useEffect) run after the commit, in a later task    *)
(*    unless the update came from a discrete event: a ref call, a timer or *)
(*    a continuation can run between a commit and its effects; React runs  *)
(*    the pending effects before it renders the component again.           *)
(*                                                                         *)
(* Field values are tags: "undef" (key absent or undefined), "empty" (""), *)
(* "zero" (the number 0), and the non-empty strings "x" and "name". A      *)
(* value map carries the order of its keys, which JSON.stringify follows.  *)
(***************************************************************************)
\* bound on the number of calls made on one Form instance
MaxOps == 3

FormIds == {"name", "bio"}

FormField(id, label, required) == [id |-> id, label |-> label, required |-> required]

\* schema.fields of the rendered form: one required field and a second
\* field that is optional or required
FormSchemas ==
  {<<FormField("name", "Name", TRUE), FormField("bio", "Bio", r)>> : r \in BOOLEAN}

\* a value map: the value of each field and the keys in property order
ValueMap(keys, name, bio) == [name |-> name, bio |-> bio, keys |-> keys]

EmptyValues == ValueMap(<<>>, "undef", "undef")

\* initialValues props of the first render: {}, {name: "x"} and
\* {name: "x", bio: 0}
InitialValuesSet ==
  {EmptyValues,
   ValueMap(<<"name">>, "x", "undef"),
   ValueMap(<<"name", "bio">>, "x", "zero")}

\* initialValues props a parent passes later: the same, and {bio: 0, name: "x"}
LaterInitialValuesSet ==
  InitialValuesSet \cup {ValueMap(<<"bio", "name">>, "x", "zero")}

\* values a caller or the user can put in each field: the first field is
\* emptied or filled, the second is filled with a string that is also the
\* id of the first
ChangeVals(id) == IF id = "name" THEN {"empty", "x"} ELSE {"name"}

\* the fields blur is called on; the other field stays untouched
BlurIds == {"name"}

\* arguments of setValues(partial); "keep" marks a key the partial lacks
Partials ==
  {[name |-> "empty", bio |-> "keep"]}

\* !fieldValue || fieldValue === ""
Falsy(v) == v \in {"undef", "empty", "zero"}

NoErrors == [f \in FormIds |-> <<>>]
NoneTouched == [f \in FormIds |-> FALSE]

\* useState initial values; isValid starts false in the mobile Form and
\* true in the json-form-lib Form
HookState(variantName, initialValues) ==
  [values |-> initialValues, errors |-> NoErrors, touched |-> NoneTouched,
   isSubmitting |-> FALSE, isValid |-> (variantName = "lib"),
   isDirty |-> FALSE, hasSubmitted |-> FALSE]

\* JSON.stringify(values): the key/value pairs in key order; a key whose
\* value is undefined is left out
stringify(valueMap) ==
  LET present == SelectSeq(valueMap.keys, LAMBDA key : valueMap[key] /= "undef")
  IN [i \in 1..Len(present) |-> <<present[i], valueMap[present[i]]>>]

\* { ...prev, [id]: value }: a new key goes last
withKey(prev, id, value) ==
  [prev EXCEPT ![id] = value,
               !.keys = IF Includes(@, id) THEN @ ELSE Append(@, id)]

\* JSON.stringify(currentValues) !== JSON.stringify(initialValuesRef.current)
checkDirtyState(currentValues, initialValues) ==
  stringify(currentValues) /= stringify(initialValues)

RECURSIVE requiredErrors(_, _)
\* the loop of validateForm: formErrors[field.id] = ["<label> is required"]
requiredErrors(fields, vals) ==
  IF fields = <<>> THEN NoErrors
  ELSE LET f == Head(fields)
           rest == requiredErrors(Tail(fields), vals)
       IN IF f.required /\ Falsy(vals[f.id])
            THEN [rest EXCEPT ![f.id] = <<f.label \o " is required">>]
            ELSE rest

\* formIsValid of validateForm and of the silent validation effect
formIsValid(fields, vals) ==
  \A i \in 1..Len(fields) : ~(fields[i].required /\ Falsy(vals[fields[i].id]))

\* the result object of validateForm
ValidationResult(fields, vals) ==
  [isValid |-> formIsValid(fields, vals), errors |-> requiredErrors(fields, vals)]

\* the setTimeout callback of handleChange: it reads the values of the
\* render the change was made from and compares each value with the id
timeoutIsValid(fields, vals, id, value) ==
  \A i \in 1..Len(fields) :
    LET fieldValue == IF vals[fields[i].id] = id THEN value ELSE vals[fields[i].id]
    IN ~(fields[i].required /\ Falsy(fieldValue))

\* { ...prev, ...newValues }
mergeValues(prev, partial) ==
  LET withName == IF partial.name = "keep" THEN prev ELSE withKey(prev, "name", partial.name)
  IN IF partial.bio = "keep" THEN withName ELSE withKey(withName, "bio", partial.bio)

\* an edit that drops every error entry
clearAllErrors(errors, id) == NoErrors

\* setErrors(prev => { delete newErrors[id] }): the entry of the edited
\* field is removed, the others are kept
clearFieldError(errors, id) == [errors EXCEPT ![id] = <<>>]

\* setIsSubmitting(false) placed after the awaits instead of in finally
afterSubmitNoFinally(s, outcome) ==
  IF outcome \in {"throws", "rejected"} THEN s ELSE [s EXCEPT !.isSubmitting = FALSE]

\* finally { setIsSubmitting(false) }
afterSubmit(s, outcome) == [s EXCEPT !.isSubmitting = FALSE]

\* if (validationResult.isValid) await events?.submit?.(values)
shouldInvoke(validationResult) == validationResult.isValid

\* catch (error) { console.error(...) }: nothing thrown inside try leaves
\* handleSubmit
catchError(outcome) == TRUE

\* FieldWrapperHasError with the `&& touched` dropped
hasErrorIgnoringTouched(error, touched) == error /= <<>>

\* FieldWrapper: `hasError = error && error.length > 0 && touched`; the error
\* messages are rendered only under `hasError &&`. The field components
\* compute the same expression for their invalid styling.
FieldWrapperHasError(error, touched) == error /= <<>> /\ touched

\* what FieldRenderer.render hands to the component of field id from a render
\* context, and the error messages the wrapper then shows
displayedErrors(context, id) ==
  IF FieldWrapperHasError(context.errors[id], context.touched[id])
    THEN context.errors[id]
    ELSE <<>>

\* the guard of the initialValues effect:
\* JSON.stringify(initialValues) !== JSON.stringify(initialValuesRef.current)
initialValuesChanged(newInitial, current) == stringify(newInitial) /= stringify(current)

\* the `disabled` prop of the Submit button (the Form's own disabled prop is
\* false): `disabled || isSubmitting || !isValid` in the json-form-lib Form,
\* `disabled || isSubmitting` in the mobile Form
submitDisabled(variantName, s) ==
  IF variantName = "lib" THEN s.isSubmitting \/ ~s.isValid ELSE s.isSubmitting
(***************************************************************************)
(* Form state machine                                                      *)
(***************************************************************************)
NoValidate == [isValid |-> FALSE, errors |-> NoErrors, vals |-> EmptyValues]

\* no setValues updater is left to the next render
NoUpdater == [on |-> FALSE, values |-> EmptyValues]

\* initialValuesRef = useRef(initialValues): the ref holds the prop of the
\* first render.
\* State after construction: the first render is committed, the ref handle
\* is attached, and the passive effects of that commit have not run yet. In
\* the mobile Form these are the built-in registration effect, which calls
\* setIsInitialized(true), and the silent validation effect. The
\* initialValues effect of the first commit compares the prop with the ref
\* made from it and does nothing.
FormInit ==
  /\ variant \in {"mobile", "lib"}
  /\ fschema \in FormSchemas
  /\ initialValuesProp \in InitialValuesSet
  /\ initialRef = initialValuesProp
  /\ rd = HookState(variant, initialRef)
  /\ st = HookState(variant, initialRef)
  /\ busy = FALSE
  /\ effects = IF variant = "mobile" THEN {"initialize", "silent"} ELSE {}
  /\ lateDirty = NoUpdater
  /\ stObj = "same"
  /\ rdIsInit = TRUE
  /\ timers = <<>>
  /\ subs = <<>>
  /\ invoked = <<>>
  /\ lastOutcome = "none"
  /\ escaped = FALSE
  /\ lastOp = "mount"
  /\ lastValidate = NoValidate
  /\ ops = 0

CanCall == variant /= "off" /\ ops < MaxOps

\* whether a setValues updater may run at once: only while the component
\* has no pending update, and even then React may leave it to the render
EagerChoices == IF busy THEN {FALSE} ELSE {TRUE, FALSE}

\* the setValues(prev => ...) call shared by handleChange and ref.setValues:
\* the updater computes newValues from the queued state, calls
\* checkDirtyState(newValues) and returns newValues; an updater left to the
\* render reads initialValuesRef.current when the render runs it
QueueValuesUpdater(s, newValues, eager) ==
  [s EXCEPT !.values = newValues,
            !.isDirty = IF eager THEN checkDirtyState(newValues, initialRef) ELSE @]

\* handleChange(id, value), also reached through ref.setFieldValue
HandleChange(id, value, eager) ==
  /\ CanCall
  /\ LET newValues == withKey(st.values, id, value)
         s1 == QueueValuesUpdater(st, newValues, eager)
     IN /\ st' = IF variant = "mobile"
                   THEN [s1 EXCEPT !.errors = clearFieldError(s1.errors, id)]
                   ELSE s1
        /\ lateDirty' = IF eager THEN lateDirty
                        ELSE [on |-> TRUE, values |-> newValues]
  /\ timers' = IF variant = "mobile"
                 THEN Append(timers, timeoutIsValid(fschema, rd.values, id, value))
                 ELSE timers
  /\ busy' = TRUE
  /\ stObj' = "new"
  /\ lastOp' = "change"
  /\ ops' = ops + 1
  /\ lastOutcome' = "none"
  /\ lastValidate' = NoValidate
  /\ UNCHANGED notForm
  /\ UNCHANGED <<variant, fschema, initialValuesProp, initialRef, effects, rd, rdIsInit, subs, invoked, escaped>>

\* ref.setValues(newValues)
SetValues(partial, eager) ==
  /\ CanCall
  /\ LET updatedValues == mergeValues(st.values, partial)
     IN /\ st' = QueueValuesUpdater(st, updatedValues, eager)
        /\ lateDirty' = IF eager THEN lateDirty
                        ELSE [on |-> TRUE, values |-> updatedValues]
  /\ busy' = TRUE
  /\ stObj' = "new"
  /\ lastOp' = "call"
  /\ ops' = ops + 1
  /\ lastOutcome' = "none"
  /\ lastValidate' = NoValidate
  /\ UNCHANGED notForm
  /\ UNCHANGED <<variant, fschema, initialValuesProp, initialRef, effects, rd, rdIsInit, timers, subs, invoked, escaped>>

\* the setTimeout(..., 0) callback queued by handleChange (mobile Form); all
\* it reads was captured when the timer was set, so the timer is kept as the
\* value it will pass to setIsValid
TimerFire ==
  /\ timers /= <<>>
  /\ st' = [st EXCEPT !.isValid = Head(timers)]
  /\ timers' = Tail(timers)
  /\ busy' = TRUE
  /\ UNCHANGED notForm
  /\ UNCHANGED <<variant, fschema, initialValuesProp, initialRef, effects, rd, lateDirty, stObj, rdIsInit,
                 subs, invoked, lastOutcome, escaped, lastOp, lastValidate, ops>>

\* handleFieldBlur(fieldId), also reached through ref.blur
HandleFieldBlur(id) ==
  /\ CanCall
  /\ st' = [st EXCEPT !.touched[id] = TRUE]
  /\ busy' = TRUE
  /\ lastOp' = "call"
  /\ ops' = ops + 1
  /\ lastOutcome' = "none"
  /\ lastValidate' = NoValidate
  /\ UNCHANGED notForm
  /\ UNCHANGED <<variant, fschema, initialValuesProp, initialRef, effects, rd, lateDirty, stObj, rdIsInit,
                 timers, subs, invoked, escaped>>

\* validateForm(), reached through ref.validate: it reads the values of the
\* render it was created in
ValidateForm ==
  /\ CanCall
  /\ LET result == ValidationResult(fschema, rd.values)
     IN /\ st' = [st EXCEPT !.errors = result.errors, !.isValid = result.isValid]
        /\ lastValidate' = [isValid |-> result.isValid, errors |-> result.errors,
                            vals |-> rd.values]
  /\ busy' = TRUE
  /\ lastOp' = "validate"
  /\ ops' = ops + 1
  /\ lastOutcome' = "none"
  /\ UNCHANGED notForm
  /\ UNCHANGED <<variant, fschema, initialValuesProp, initialRef, effects, rd, lateDirty, stObj, rdIsInit,
                 timers, subs, invoked, escaped>>

\* handleSubmit(), up to its first await: the guard reads the isSubmitting
\* of the render the handler was created in; validateForm has no await of
\* its own, so its body runs within the call
HandleSubmit ==
  /\ CanCall
  /\ IF rd.isSubmitting
       THEN UNCHANGED <<st, subs, busy>>
       ELSE LET result == ValidationResult(fschema, rd.values)
            IN /\ st' = [st EXCEPT !.isSubmitting = TRUE,
                                   !.hasSubmitted = IF variant = "mobile" THEN TRUE ELSE @,
                                   !.errors = result.errors,
                                   !.isValid = result.isValid]
               /\ subs' = Append(subs, [id |-> ops + 1, pc |-> "validated",
                                        vals |-> rd.values, written |-> st.values,
                                        result |-> [isValid |-> result.isValid],
                                        during |-> {subs[j].id : j \in 1..Len(subs)}])
               /\ busy' = TRUE
  /\ lastOp' = "call"
  /\ ops' = ops + 1
  /\ lastOutcome' = "none"
  /\ lastValidate' = NoValidate
  /\ UNCHANGED notForm
  /\ UNCHANGED <<variant, fschema, initialValuesProp, initialRef, effects, rd, lateDirty, stObj, rdIsInit,
                 timers, invoked, escaped>>

RemoveAt(s, i) == SubSeq(s, 1, i - 1) \o SubSeq(s, i + 1, Len(s))

\* handleSubmit resumed after `await validateForm()`: it calls the external
\* submit callback when the result is valid; the callback returns a promise
\* that is awaited ("pending") or throws; then, or at once when the result
\* is invalid, the finally block runs
SubmitContinue(i, outcome) ==
  /\ subs[i].pc = "validated"
  /\ IF shouldInvoke(subs[i].result)
       THEN /\ invoked' = Append(invoked, [id |-> subs[i].id, vals |-> subs[i].vals,
                                               written |-> subs[i].written,
                                               during |-> subs[i].during])
            /\ IF outcome = "pending"
                 THEN /\ subs' = [subs EXCEPT ![i].pc = "awaiting"]
                      /\ UNCHANGED <<st, busy, lastOutcome, escaped>>
                 ELSE /\ subs' = RemoveAt(subs, i)
                      /\ st' = afterSubmit(st, outcome)
                      /\ busy' = TRUE
                      /\ lastOutcome' = outcome
                      /\ escaped' = (escaped \/ ~catchError(outcome))
       ELSE /\ outcome = "pending"
            /\ subs' = RemoveAt(subs, i)
            /\ st' = afterSubmit(st, "invalid")
            /\ busy' = TRUE
            /\ lastOutcome' = "invalid"
            /\ UNCHANGED <<invoked, escaped>>
  /\ UNCHANGED notForm
  /\ UNCHANGED <<variant, fschema, initialValuesProp, initialRef, effects, rd, lateDirty, stObj, rdIsInit,
                 timers, lastOp, lastValidate, ops>>

\* the promise returned by the external submit callback settles; a rejection
\* lands in catch (console.error), and finally runs in both cases
CallbackSettle(i, outcome) ==
  /\ subs[i].pc = "awaiting"
  /\ subs' = RemoveAt(subs, i)
  /\ st' = afterSubmit(st, outcome)
  /\ busy' = TRUE
  /\ lastOutcome' = outcome
  /\ escaped' = (escaped \/ (outcome = "rejected" /\ ~catchError(outcome)))
  /\ UNCHANGED notForm
  /\ UNCHANGED <<variant, fschema, initialValuesProp, initialRef, effects, rd, lateDirty, stObj, rdIsInit,
                 timers, invoked, lastOp, lastValidate, ops>>

\* handleReset(), also reached through ref.reset
HandleReset ==
  /\ CanCall
  /\ st' = [st EXCEPT !.values = initialRef, !.errors = NoErrors,
                      !.touched = NoneTouched, !.isSubmitting = FALSE,
                      !.isDirty = FALSE, !.isValid = TRUE,
                      !.hasSubmitted = FALSE]
  /\ stObj' = "init"
  /\ busy' = TRUE
  /\ lastOp' = "reset"
  /\ ops' = ops + 1
  /\ lastOutcome' = "none"
  /\ lastValidate' = NoValidate
  /\ UNCHANGED notForm
  /\ UNCHANGED <<variant, fschema, initialValuesProp, initialRef, effects, rd, lateDirty, rdIsInit,
                 timers, subs, invoked, escaped>>

\* the state a render commits: the queued updates, the setValues updaters
\* left to the render run now, their setIsDirty landing last
Committed ==
  [st EXCEPT !.isDirty = IF lateDirty.on
                           THEN checkDirtyState(lateDirty.values, initialRef)
                           ELSE @]

\* the values object of the render being committed is not the one of the
\* render before
ValuesChanged == stObj = "new" \/ (stObj = "init" /\ ~rdIsInit)

\* A render commits the queued updates and the handlers become the closures
\* of this render. The silent validation effect of the mobile Form (deps
\* [schema.fields, values]) is left to run after the commit when the values
\* object changed. React runs the effects of the commit before, so a render
\* starts with none pending.
Render ==
  /\ variant /= "off"
  /\ effects = {}
  /\ busy \/ lateDirty.on
  /\ rd' = Committed
  /\ st' = Committed
  /\ effects' = IF variant = "mobile" /\ ValuesChanged THEN {"silent"} ELSE {}
  /\ busy' = FALSE
  /\ rdIsInit' = (stObj = "init" \/ (stObj = "same" /\ rdIsInit))
  /\ lateDirty' = NoUpdater
  /\ stObj' = "same"
  /\ lastOp' = IF lastOp = "reset" THEN "resetRendered" ELSE lastOp
  /\ UNCHANGED notForm
  /\ UNCHANGED <<variant, fschema, initialValuesProp, initialRef, timers, subs, invoked,
                 lastOutcome, escaped, lastValidate, ops>>

\* The passive effects of the last commit run, in declaration order.
\*  - built-in registration (mobile, first commit): setIsInitialized(true);
\*  - silent validation (mobile): setIsValid(formIsValid) computed from the
\*    values of the committed render; with no update pending and the same
\*    value the call schedules nothing;
\*  - initialValues: when the prop of the committed render serializes
\*    differently from the ref, the ref is replaced and setValues(prop) and
\*    setIsDirty(false) are queued.
RunEffects ==
  /\ effects /= {}
  /\ LET silent == formIsValid(fschema, rd.values)
         pendingUpdate == busy \/ "initialize" \in effects
         afterSilent == IF "silent" \in effects THEN [st EXCEPT !.isValid = silent] ELSE st
         silentQueued == "silent" \in effects /\ (pendingUpdate \/ silent /= st.isValid)
         replace == /\ "initialValues" \in effects
                    /\ initialValuesChanged(initialValuesProp, initialRef)
     IN /\ st' = IF replace
                   THEN [afterSilent EXCEPT !.values = initialValuesProp, !.isDirty = FALSE]
                   ELSE afterSilent
        /\ initialRef' = IF replace THEN initialValuesProp ELSE initialRef
        /\ busy' = (pendingUpdate \/ silentQueued \/ replace)
        /\ stObj' = IF replace THEN "init" ELSE stObj
        /\ rdIsInit' = (~replace /\ rdIsInit)
        /\ lastOp' = IF replace THEN "initialValues" ELSE lastOp
  /\ effects' = {}
  /\ UNCHANGED notForm
  /\ UNCHANGED <<variant, fschema, initialValuesProp, rd, lateDirty, timers, subs, invoked,
                 lastOutcome, escaped, lastValidate, ops>>

\* The parent renders the Form again with the initialValues object
\* newInitial: the render commits the queued updates as Render does, and the
\* initialValues effect (deps [initialValues]) is left to run after the
\* commit, behind the silent validation effect when that one runs too
ReceiveInitialValues(newInitial) ==
  /\ CanCall
  /\ effects = {}
  /\ rd' = Committed
  /\ st' = Committed
  /\ effects' = (IF variant = "mobile" /\ ValuesChanged THEN {"silent"} ELSE {})
                  \cup {"initialValues"}
  /\ busy' = FALSE
  /\ rdIsInit' = (stObj = "init" \/ (stObj = "same" /\ rdIsInit))
  /\ stObj' = "same"
  /\ initialValuesProp' = newInitial
  /\ lateDirty' = NoUpdater
  /\ lastOp' = "call"
  /\ ops' = ops + 1
  /\ lastOutcome' = "none"
  /\ lastValidate' = NoValidate
  /\ UNCHANGED notForm
  /\ UNCHANGED <<variant, fschema, initialRef, timers, subs, invoked, escaped>>

\* The parent renders the Form again with a newly built schema object of the
\* same content: schema.fields is another array, so the silent validation
\* effect of the mobile Form runs after the commit whether or not the values
\* changed
ReceiveSchema ==
  /\ CanCall
  /\ effects = {}
  /\ rd' = Committed
  /\ st' = Committed
  /\ effects' = IF variant = "mobile" THEN {"silent"} ELSE {}
  /\ busy' = FALSE
  /\ rdIsInit' = (stObj = "init" \/ (stObj = "same" /\ rdIsInit))
  /\ stObj' = "same"
  /\ lateDirty' = NoUpdater
  /\ lastOp' = "call"
  /\ ops' = ops + 1
  /\ lastOutcome' = "none"
  /\ lastValidate' = NoValidate
  /\ UNCHANGED notForm
  /\ UNCHANGED <<variant, fschema, initialValuesProp, initialRef, timers, subs, invoked,
                 escaped>>
(***************************************************************************)
(* FieldRenderer (FieldRenderer.tsx): FieldTypeRegistry, render,           *)
(* renderFields and FieldErrorBoundary.                                    *)
(*                                                                         *)
(* A field component is a tag; "CompThrows" raises whenever React renders  *)
(* it. The Map of the registry is the sequence of its entries in insertion *)
(* order: set() on an existing key replaces the value in place, on a new   *)
(* key it appends.                                                         *)
(***************************************************************************)
\* bound on the number of calls made on one FieldRenderer
MaxRendererOps == 4

FieldTypes == {"text", "number"}

FieldComponents == {"CompA", "CompB", "CompThrows"}

\* the forms drawn with the renderer
RenderedForms ==
  {<<[id |-> "f1", type |-> "text"], [id |-> "f2", type |-> "number"]>>,
   <<[id |-> "f1", type |-> "text"], [id |-> "f2", type |-> "number"],
     [id |-> "f3", type |-> "text"]>>}

RenderedIds == {"f1", "f2", "f3"}

\* position of the entry of `type` in the Map, 0 if there is none
entryIndex(m, type) ==
  IF \E i \in 1..Len(m) : m[i].type = type
    THEN CHOOSE i \in 1..Len(m) : m[i].type = type
    ELSE 0

\* a registration that never replaces an existing entry
registerIfAbsent(m, type, component) ==
  IF entryIndex(m, type) /= 0 THEN m
  ELSE Append(m, [type |-> type, component |-> component])

\* FieldTypeRegistry.register: this.components.set(type, component)
register(m, type, component) ==
  IF entryIndex(m, type) /= 0
    THEN [m EXCEPT ![entryIndex(m, type)].component = component]
    ELSE Append(m, [type |-> type, component |-> component])

\* FieldTypeRegistry.get: this.components.get(type)
get(m, type) ==
  IF entryIndex(m, type) /= 0 THEN m[entryIndex(m, type)].component ELSE "undefined"

\* FieldTypeRegistry.has: this.components.has(type)
has(m, type) == entryIndex(m, type) /= 0

\* FieldTypeRegistry.getRegisteredTypes: Array.from(this.components.keys())
getRegisteredTypes(m) == [i \in 1..Len(m) |-> m[i].type]

\* FieldTypeRegistry.unregister: this.components.delete(type); the other
\* entries keep their order
unregister(m, type) == SelectSeq(m, LAMBDA entry : entry.type /= type)

\* a clear that leaves the entries in place
clearNothing(m) == m

\* FieldTypeRegistry.clear: this.components.clear()
clear(m) == <<>>

\* FieldRenderer.registerFieldType
registerFieldType(m, type, component) == register(m, type, component)

\* FieldRenderer.getFieldComponent
getFieldComponent(m, type) == get(m, type)

\* FieldRenderer.isFieldTypeSupported
isFieldTypeSupported(m, type) == has(m, type)

\* FieldRenderer.getRegisteredFieldTypes
getRegisteredFieldTypes(m) == getRegisteredTypes(m)

\* FieldRenderer.clearRegistry
clearRegistry(m) == clear(m)

\* the registrations registerBuiltInFieldComponents makes, in order
BuiltInFieldComponents ==
  <<[type |-> "text", component |-> "TextInputField"],
    [type |-> "email", component |-> "EmailInputField"],
    [type |-> "password", component |-> "PasswordInputField"],
    [type |-> "textarea", component |-> "TextAreaField"],
    [type |-> "number", component |-> "NumberInputField"]>>

RECURSIVE registerEach(_, _)
registerEach(m, entries) ==
  IF entries = <<>> THEN m
  ELSE registerEach(registerFieldType(m, Head(entries).type, Head(entries).component),
                    Tail(entries))

\* registerBuiltInFieldComponents(): fieldRenderer.registerFieldType for each
\* built-in type
registerBuiltInFieldComponents(m) == registerEach(m, BuiltInFieldComponents)

UnsupportedFieldComponent == "UnsupportedFieldComponent"

\* FieldRenderer.render: the element
\* <FieldErrorBoundary key fieldId><FieldComponent field ... /></FieldErrorBoundary>
\* with FieldComponent = this.registry.get(fieldType) || UnsupportedFieldComponent
render(m, field) ==
  LET fieldType == field.type
      FieldComponent == IF get(m, fieldType) /= "undefined" THEN get(m, fieldType)
                        ELSE UnsupportedFieldComponent
  IN [key |-> field.id, fieldId |-> field.id, component |-> FieldComponent, field |-> field]

\* FieldRenderer.renderFields: fields.map(field => this.render(field, context))
renderFields(m, fields) == [i \in 1..Len(fields) |-> render(m, fields[i])]

\* what React gets from rendering the child of the boundary: the output of
\* the component, or the exception it raises
componentOutput(el) ==
  IF el.component = "CompThrows" THEN [kind |-> "throws"]
  ELSE IF el.component = UnsupportedFieldComponent
    THEN [kind |-> "unsupported", fieldId |-> el.field.id, type |-> el.field.type,
          by |-> UnsupportedFieldComponent]
  ELSE [kind |-> "field", fieldId |-> el.field.id, type |-> el.field.type,
        by |-> el.component]

\* the placeholder FieldErrorBoundary.render returns when state.hasError
errorPlaceholder(fieldId) ==
  [kind |-> "error", fieldId |-> fieldId, type |-> "", by |-> "FieldErrorBoundary"]

\* a boundary that lets the exception of its child through
boundaryLetsThrough(el, hasError) ==
  LET out == componentOutput(el)
  IN [shown |-> out, hasError |-> hasError, escaped |-> out.kind = "throws"]

\* FieldErrorBoundary: once hasError it keeps showing the placeholder;
\* otherwise it shows its child, and when the child raises,
\* getDerivedStateFromError sets hasError and the placeholder is shown
FieldErrorBoundary(el, hasError) ==
  LET out == componentOutput(el)
  IN IF hasError \/ out.kind = "throws"
       THEN [shown |-> errorPlaceholder(el.fieldId), hasError |-> TRUE, escaped |-> FALSE]
       ELSE [shown |-> out, hasError |-> FALSE, escaped |-> FALSE]

NoBoundaryError == [f \in RenderedIds |-> FALSE]

\* no FieldRenderer is exercised
NoRenderer ==
  /\ components = <<>>
  /\ regLog = <<>>
  /\ rfields = <<>>
  /\ elements = <<>>
  /\ boundaries = NoBoundaryError
  /\ screen = <<>>
  /\ propagated = FALSE
  /\ rlast = "off"
  /\ rops = 0

\* new FieldRenderer(): an empty registry; the form is not drawn yet
RendererInit ==
  /\ components = <<>>
  /\ regLog = <<>>
  /\ rfields \in RenderedForms
  /\ elements = <<>>
  /\ boundaries = NoBoundaryError
  /\ screen = <<>>
  /\ propagated = FALSE
  /\ rlast = "new"
  /\ rops = 0

RendererCanCall == rlast /= "off" /\ rops < MaxRendererOps

RegisterFieldType(type, component) ==
  /\ RendererCanCall
  /\ components' = registerFieldType(components, type, component)
  /\ regLog' = Append(regLog, [op |-> "register", type |-> type, component |-> component,
                               by |-> "host"])
  /\ rlast' = "register"
  /\ rops' = rops + 1
  /\ UNCHANGED <<rfields, elements, boundaries, screen, propagated>>
  /\ UNCHANGED notRenderer

ClearRegistry ==
  /\ RendererCanCall
  /\ components' = clearRegistry(components)
  /\ regLog' = Append(regLog, [op |-> "clear", type |-> "", component |-> "", by |-> "host"])
  /\ rlast' = "clear"
  /\ rops' = rops + 1
  /\ UNCHANGED <<rfields, elements, boundaries, screen, propagated>>
  /\ UNCHANGED notRenderer

\* unregister called on the registry of the renderer. FieldRenderer has no
\* method for it; the class FieldTypeRegistry is exported with unregister
\* public, and the registry field is private only to the type checker.
UnregisterFieldType(type) ==
  /\ RendererCanCall
  /\ components' = unregister(components, type)
  /\ regLog' = Append(regLog, [op |-> "unregister", type |-> type, component |-> "",
                               by |-> "host"])
  /\ rlast' = "unregister"
  /\ rops' = rops + 1
  /\ UNCHANGED <<rfields, elements, boundaries, screen, propagated>>
  /\ UNCHANGED notRenderer

\* The form is drawn: renderFields builds one element per field, and React
\* renders each element inside the boundary mounted under the field's key.
\* An exception that no boundary catches unmounts the whole tree.
RenderFields ==
  /\ RendererCanCall
  /\ ~propagated
  /\ LET els == renderFields(components, rfields)
         res == [i \in 1..Len(els) |-> FieldErrorBoundary(els[i], boundaries[els[i].key])]
         escapes == \E i \in 1..Len(els) : res[i].escaped
     IN /\ elements' = els
        /\ propagated' = escapes
        /\ screen' = IF escapes THEN <<>> ELSE [i \in 1..Len(els) |-> res[i].shown]
        /\ boundaries' = [f \in RenderedIds |->
                            IF \E i \in 1..Len(els) : els[i].key = f
                              THEN res[CHOOSE i \in 1..Len(els) : els[i].key = f].hasError
                              ELSE boundaries[f]]
  /\ rlast' = "render"
  /\ rops' = rops + 1
  /\ UNCHANGED <<components, regLog, rfields>>
  /\ UNCHANGED notRenderer

\* A Form mounts: its first effect finds isInitialized false and calls
\* registerBuiltInFieldComponents() on the shared fieldRenderer
FormMountRegisters ==
  /\ RendererCanCall
  /\ components' = registerBuiltInFieldComponents(components)
  /\ regLog' = regLog \o [i \in 1..Len(BuiltInFieldComponents) |->
                            [op |-> "register", type |-> BuiltInFieldComponents[i].type,
                             component |-> BuiltInFieldComponents[i].component,
                             by |-> "form"]]
  /\ rlast' = "mount"
  /\ rops' = rops + 1
  /\ UNCHANGED <<rfields, elements, boundaries, screen, propagated>>
  /\ UNCHANGED notRenderer

RendererNext ==
  \/ \E type \in FieldTypes, component \in FieldComponents : RegisterFieldType(type, component)
  \/ ClearRegistry
  \/ \E type \in FieldTypes : UnregisterFieldType(type)
  \/ RenderFields

\* the shared renderer with Forms mounting on it
MountedRendererNext ==
  \/ RendererNext
  \/ FormMountRegisters

(***************************************************************************)
(* Lifecycle effect of the Form (Form.tsx):                                *)
(*   useEffect(() => { events?.mount?.();                                  *)
(*                     return () => { events?.unmount?.(); }; }, [events]) *)
(* React runs the effect after the first render, and after every render in *)
(* which the events prop is another object than in the render before: the  *)
(* cleanup of the previous run first, then the effect again. On unmount it *)
(* runs the cleanup of the last run. An identity is a number: the parent   *)
(* that writes events={{ ... }} or builds the schema inline passes a new   *)
(* object with every render of its own.                                    *)
(***************************************************************************)
\* bound on the number of renders of one Form
MaxRenders == 6

LifeCall(name, events) == [callback |-> name, events |-> events]

\* the effect body: events?.mount?.()
lifecycleEffect(log, events) == Append(log, LifeCall("mount", events))

\* the cleanup the effect returned: events?.unmount?.(), with the events of
\* the render the effect ran in
lifecycleCleanup(log, events) == Append(log, LifeCall("unmount", events))

\* the dependency array [events]: compared by identity
depsChanged(prevEvents, nextEvents) == prevEvents /= nextEvents

\* no Form lifecycle is exercised
NoLifecycle ==
  /\ formMounted = "off"
  /\ eventsProp = 0
  /\ schemaProp = 0
  /\ lifeLog = <<>>
  /\ lifeOps = 0

LifecycleInit ==
  /\ formMounted = "no"
  /\ eventsProp = 0
  /\ schemaProp = 0
  /\ lifeLog = <<>>
  /\ lifeOps = 0

\* first render of <Form schema events />: the effect runs
MountForm ==
  /\ formMounted = "no"
  /\ formMounted' = "mounted"
  /\ lifeLog' = lifecycleEffect(lifeLog, eventsProp)
  /\ lifeOps' = lifeOps + 1
  /\ UNCHANGED <<eventsProp, schemaProp>>
  /\ UNCHANGED notLifecycle

\* a render caused by the Form's own state: the props are the same objects
StateRender ==
  /\ formMounted = "mounted"
  /\ lifeOps < MaxRenders
  /\ lifeOps' = lifeOps + 1
  /\ UNCHANGED <<formMounted, eventsProp, schemaProp, lifeLog>>
  /\ UNCHANGED notLifecycle

\* a render caused by the parent: it passes the same or a new events
\* object, and the same or a replaced schema
ParentRender(newEvents, newSchema) ==
  /\ formMounted = "mounted"
  /\ lifeOps < MaxRenders
  /\ LET nextEvents == IF newEvents THEN eventsProp + 1 ELSE eventsProp
     IN /\ eventsProp' = nextEvents
        /\ lifeLog' = IF depsChanged(eventsProp, nextEvents)
                        THEN lifecycleEffect(lifecycleCleanup(lifeLog, eventsProp), nextEvents)
                        ELSE lifeLog
  /\ schemaProp' = IF newSchema THEN schemaProp + 1 ELSE schemaProp
  /\ lifeOps' = lifeOps + 1
  /\ UNCHANGED formMounted
  /\ UNCHANGED notLifecycle

\* the Form is removed from the tree: the cleanup of the last effect runs
UnmountForm ==
  /\ formMounted = "mounted"
  /\ formMounted' = "unmounted"
  /\ lifeLog' = lifecycleCleanup(lifeLog, eventsProp)
  /\ UNCHANGED <<eventsProp, schemaProp, lifeOps>>
  /\ UNCHANGED notLifecycle

LifecycleNext ==
  \/ MountForm
  \/ StateRender
  \/ \E newEvents \in BOOLEAN, newSchema \in BOOLEAN : ParentRender(newEvents, newSchema)
  \/ UnmountForm

(***************************************************************************)
(* Parser harness: validate, then resolveFieldDependencies, then parse,    *)
(* each applied to the same schema.                                        *)
(***************************************************************************)
NoVerdict == [threw |-> FALSE, isValid |-> FALSE, errors |-> <<>>]
NoResolve == [error |-> [code |-> "pending", fieldId |-> ""], dependencies |-> EmptyGraph]
NoParse == ParseOutcome("pending", "", <<>>, <<>>, EmptyGraph, <<>>)

\* resolveFieldDependencies reads schema.fields.forEach and each field's
\* attributes: it raises a TypeError on anything else
Resolvable(s) == s.kind = "object" /\ s.fieldsKind = "array" /\ ~DerefThrows(s.fields)

\* no Form is mounted while the parser is exercised
NoForm ==
  /\ variant = "off"
  /\ fschema = <<>>
  /\ initialValuesProp = EmptyValues
  /\ initialRef = EmptyValues
  /\ st = HookState("off", EmptyValues)
  /\ rd = HookState("off", EmptyValues)
  /\ lateDirty = NoUpdater
  /\ busy = FALSE
  /\ effects = {}
  /\ stObj = "same"
  /\ rdIsInit = TRUE
  /\ timers = <<>>
  /\ subs = <<>>
  /\ invoked = <<>>
  /\ lastOutcome = "none"
  /\ escaped = FALSE
  /\ lastOp = "mount"
  /\ lastValidate = NoValidate
  /\ ops = 0

\* the parser is not exercised while a Form is checked
NoParser ==
  /\ schema = NullSchema
  /\ ppc = "off"
  /\ vres = NoVerdict
  /\ dres = NoResolve
  /\ pres = NoParse

ParserInit ==
  /\ schema \in GraphSchemas \cup StructSchemas
  /\ ppc = "start"
  /\ vres = NoVerdict
  /\ dres = NoResolve
  /\ pres = NoParse
  /\ NoForm
  /\ NoRenderer
  /\ NoLifecycle

CallValidate ==
  /\ ppc = "start"
  /\ vres' = validate(schema)
  /\ ppc' = "validated"
  /\ UNCHANGED <<schema, dres, pres>>
  /\ UNCHANGED notParser

CallResolve ==
  /\ ppc = "validated"
  /\ dres' = IF Resolvable(schema) THEN resolveFieldDependencies(schema)
             ELSE [error |-> TypeError, dependencies |-> EmptyGraph]
  /\ ppc' = "resolved"
  /\ UNCHANGED <<schema, vres, pres>>
  /\ UNCHANGED notParser

CallParse ==
  /\ ppc = "resolved"
  /\ pres' = parse(schema)
  /\ ppc' = "parsed"
  /\ UNCHANGED <<schema, vres, dres>>
  /\ UNCHANGED notParser

ParserNext == CallValidate \/ CallResolve \/ CallParse

vars == <<pvars, fvars, rvars, lvars>>

ParserSpec == ParserInit /\ [][ParserNext]_vars

RendererSpecInit == RendererInit /\ NoParser /\ NoForm /\ NoLifecycle

RendererSpec == RendererSpecInit /\ [][RendererNext]_vars

MountedRendererSpec == RendererSpecInit /\ [][MountedRendererNext]_vars

Init == FormInit /\ NoParser /\ NoRenderer /\ NoLifecycle

Next ==
  \/ \E id \in FormIds : \E value \in ChangeVals(id), eager \in EagerChoices :
       HandleChange(id, value, eager)
  \/ \E partial \in Partials, eager \in EagerChoices : SetValues(partial, eager)
  \/ TimerFire
  \/ \E id \in BlurIds : HandleFieldBlur(id)
  \/ ValidateForm
  \/ HandleSubmit
  \/ \E i \in 1..Len(subs), outcome \in {"pending", "throws"} : SubmitContinue(i, outcome)
  \/ \E i \in 1..Len(subs), outcome \in {"resolved", "rejected"} : CallbackSettle(i, outcome)
  \/ HandleReset
  \/ RunEffects
  \/ Render

Spec == Init /\ [][Next]_vars


LifecycleSpecInit == LifecycleInit /\ NoParser /\ NoForm /\ NoRenderer

LifecycleSpec == LifecycleSpecInit /\ [][LifecycleNext]_vars

\* the Form with a parent that renders it again, with another initialValues
\* object or with a newly built schema object of the same content
InitialValuesNext ==
  \/ Next
  \/ \E newInitial \in LaterInitialValuesSet : ReceiveInitialValues(newInitial)
  \/ ReceiveSchema

InitialValuesSpec == Init /\ [][InitialValuesNext]_vars

(***************************************************************************)
(* Graph notions used to state the resolver's properties, defined from the *)
(* edge relation alone (not from the depth-first search).                  *)
(***************************************************************************)
GraphOf(s) == buildGraph(EmptyGraph, s.fields)

\* the dependency list stored for the key id, <<>> when the graph has no
\* such key
EntryOf(g, id) == IF Includes(g.keys, id) THEN g.deps[IndexOf(g.keys, id)] ELSE <<>>

Succ(g, n) == Range(EntryOf(g, n))

GraphNodes(g) == Range(g.keys) \cup UNION {Range(g.deps[i]) : i \in 1..Len(g.deps)}

RECURSIVE ReachableFrom(_, _)
\* every node reachable from the set S in zero or more steps
ReachableFrom(g, S) ==
  LET next == S \cup UNION {Succ(g, n) : n \in S}
  IN IF next = S THEN S ELSE ReachableFrom(g, next)

\* n lies on a cycle: n is reachable from one of its own successors
OnCycle(g, n) == n \in ReachableFrom(g, Succ(g, n))

GraphHasCycle(g) == \E n \in GraphNodes(g) : OnCycle(g, n)

\* C7 (as claimed): resolveFieldDependencies raises the circular-dependency
\* error exactly when the dependency graph has a cycle (self-reference and
\* transitive cycles included) and otherwise returns the graph; parse does
\* the same on every schema the validator accepts.
C7_CycleIff ==
  /\ (ppc \in {"resolved", "parsed"} /\ Resolvable(schema)) =>
       /\ dres.error.code = (IF GraphHasCycle(GraphOf(schema))
                               THEN "CIRCULAR_DEPENDENCY_ERROR" ELSE "none")
       /\ dres.error.code = "none" => dres.dependencies = GraphOf(schema)
  /\ (ppc = "parsed" /\ ~vres.threw /\ vres.isValid) =>
       pres.code = (IF GraphHasCycle(GraphOf(schema))
                      THEN "CIRCULAR_DEPENDENCY_ERROR" ELSE "none")

\* C8 (as claimed): the field named by a circular-dependency error lies on a
\* cycle of the dependency graph.
C8_NamedFieldOnCycle ==
  (ppc \in {"resolved", "parsed"} /\ dres.error.code = "CIRCULAR_DEPENDENCY_ERROR") =>
     OnCycle(GraphOf(schema), dres.error.fieldId)

(***************************************************************************)
(* Properties of validate                                                  *)
(***************************************************************************)
\* the schema is an object whose fields property is an array
HasFieldsArray(s) == s.kind = "object" /\ s.fieldsKind = "array"

DeclaredIds(s) == {s.fields[i].id : i \in 1..Len(s.fields)} \ {""}

\* the (field index, list name, rule index) triples whose rule references an
\* id that no field of the schema declares
UnknownRefs(s) ==
  UNION {
    {<<i, ln, k>> : k \in {j \in 1..Len(s.fields[i].conditional[ln]) :
                             /\ s.fields[i].hasConditional
                             /\ Truthy(s.fields[i].conditional[ln][j].field)
                             /\ s.fields[i].conditional[ln][j].field \notin DeclaredIds(s)}} :
      i \in 1..Len(s.fields), ln \in Range(ListNames)}

RefOf(s, t) == s.fields[t[1]].conditional[t[2]][t[3]].field

\* C9 (as claimed): every unknown reference makes validate return
\* isValid = false with an error naming the field that holds the rule and
\* the unknown id.
C9_NamesHolderAndRef ==
  (ppc /= "start" /\ HasFieldsArray(schema)) =>
    \A t \in UnknownRefs(schema) :
      /\ ~vres.threw
      /\ ~vres.isValid
      /\ \E k \in 1..Len(vres.errors) :
           /\ RefOf(schema, t) \in Range(vres.errors[k].interp)
           /\ schema.fields[t[1]].id \in Range(vres.errors[k].interp)

\* C10 (as claimed): validate returns a verdict for every input and never
\* throws.
C10_NeverThrows == ppc /= "start" => ~vres.threw


(***************************************************************************)
(* Properties of parse                                                     *)
(***************************************************************************)
\* C11 (as claimed): parse has exactly three outcomes. It throws
\* SCHEMA_VALIDATION_ERROR with the validator's error list when the schema
\* is not valid, even if its dependencies are cyclic; it throws
\* CIRCULAR_DEPENDENCY_ERROR for a valid schema with a dependency cycle;
\* otherwise it returns a ParsedSchema.
C11_ThreeOutcomes ==
  ppc = "parsed" =>
    /\ pres.code \in {"SCHEMA_VALIDATION_ERROR", "CIRCULAR_DEPENDENCY_ERROR", "none"}
    /\ LET valid == ~vres.threw /\ vres.isValid
           cyclic == Resolvable(schema) /\ GraphHasCycle(GraphOf(schema))
       IN pres.code = (IF ~valid THEN "SCHEMA_VALIDATION_ERROR"
                       ELSE IF cyclic THEN "CIRCULAR_DEPENDENCY_ERROR"
                       ELSE "none")
    /\ pres.code = "SCHEMA_VALIDATION_ERROR" => pres.errors = vres.errors

(***************************************************************************)
(* Properties of the dependency map                                        *)
(***************************************************************************)
\* the elements of s, each kept at its first occurrence only
FirstOccurrences(s) ==
  LET keep == {i \in 1..Len(s) : \A j \in 1..(i - 1) : s[j] /= s[i]}
      nth(k) == CHOOSE i \in keep : Cardinality({j \in keep : j <= i}) = k
  IN [k \in 1..Cardinality(keep) |-> s[nth(k)]]

\* every field id a field refers to: the rules of its show, hide, enable,
\* disable and require lists in that order, then its dynamic-option
\* dependencies
ReferencedIds(field) ==
  LET c == field.conditional
      rules == IF field.hasConditional
                 THEN c.show \o c.hide \o c.enable \o c.disable \o c.require
                 ELSE <<>>
      named == SelectSeq(rules, LAMBDA r : r.field /= "")
      options == IF field.type \in {"select", "multiselect"} /\ field.options = "dynamic"
                   THEN field.optionDeps ELSE <<>>
  IN [k \in 1..Len(named) |-> named[k].field] \o options

ExpectedDependencies(field) == FirstOccurrences(ReferencedIds(field))

DistinctIds(s) ==
  \A i, j \in 1..Len(s.fields) :
     PropertyKey(s.fields[i]) = PropertyKey(s.fields[j]) => i = j

\* C22 (as claimed): when resolveFieldDependencies returns for a schema with
\* pairwise distinct field ids, the keys of the map are exactly the ids of
\* the fields with at least one reference, no key twice, and each key maps
\* to the field's references without duplicates in first-occurrence order
\* (show, hide, enable, disable, require, then dynamic-option dependencies);
\* in parse's result every parsed field's dependency list is that same
\* list, which is its entry in the map, or empty when it has none.
C22_DependencyMapExact ==
  /\ (ppc \in {"resolved", "parsed"} /\ dres.error.code = "none" /\ DistinctIds(schema)) =>
       LET g == dres.dependencies IN
       /\ \A i, j \in 1..Len(g.keys) : g.keys[i] = g.keys[j] => i = j
       /\ Range(g.keys) = {PropertyKey(schema.fields[i]) :
                             i \in {j \in 1..Len(schema.fields) :
                                      ExpectedDependencies(schema.fields[j]) /= <<>>}}
       /\ \A i \in 1..Len(schema.fields) :
            EntryOf(g, PropertyKey(schema.fields[i])) = ExpectedDependencies(schema.fields[i])
  /\ (ppc = "parsed" /\ pres.code = "none") =>
       /\ Len(pres.fields) = Len(schema.fields)
       /\ \A i \in 1..Len(pres.fields) :
            /\ pres.fields[i].dependencies = ExpectedDependencies(schema.fields[i])
            /\ pres.fields[i].dependencies = EntryOf(pres.dependencies, pres.fields[i].id)

\* C23 (as claimed): every schema validate() accepts has a non-empty id, a
\* non-empty fields array, and pairwise distinct field ids.
C23_AcceptedSchemaInvariant ==
  (ppc /= "start" /\ vres.isValid) =>
     /\ schema.kind = "object" /\ schema.id /= ""
     /\ schema.fieldsKind = "array" /\ Len(schema.fields) > 0
     /\ DistinctIds(schema)

\* C27 (as claimed): in the dependency graph of a schema that parse()
\* accepts, every id in every dependency list is the id of a field the
\* schema declares.
C27_DependenciesDeclared ==
  (ppc = "parsed" /\ pres.code = "none") =>
     \A k \in 1..Len(pres.dependencies.deps) :
        Range(pres.dependencies.deps[k]) \subseteq DeclaredIds(schema)

(***************************************************************************)
(* Properties of the FieldRenderer, stated from the log of calls           *)
(***************************************************************************)
\* positions in the log of the registrations of type t made since the last
\* clearRegistry and not taken back by a later unregister of t
LiveRegistrations(log, t) ==
  {i \in 1..Len(log) :
     /\ log[i].op = "register"
     /\ log[i].type = t
     /\ \A j \in i..Len(log) :
          /\ log[j].op /= "clear"
          /\ ~(log[j].op = "unregister" /\ log[j].type = t)}

\* the renderer the most recent such registration gave, "undefined" if none
LastRegistered(log, t) ==
  IF LiveRegistrations(log, t) = {} THEN "undefined"
  ELSE log[CHOOSE i \in LiveRegistrations(log, t) :
             \A j \in LiveRegistrations(log, t) : j <= i].component

\* C12: after any sequence of registerFieldType and clearRegistry calls
\* (and of unregister calls on the registry, which take back the
\* registrations of one type), getFieldComponent(t) is the renderer of the
\* most recent registration of t since the last clearRegistry (undefined if
\* none), isFieldTypeSupported(t)
\* is true exactly when it is defined, and getRegisteredFieldTypes() lists
\* exactly those types, each once.
C12_RegistryLastWins ==
  rlast /= "off" =>
    /\ \A t \in FieldTypes :
         /\ getFieldComponent(components, t) = LastRegistered(regLog, t)
         /\ isFieldTypeSupported(components, t) = (getFieldComponent(components, t) /= "undefined")
    /\ LET types == getRegisteredFieldTypes(components)
       IN /\ \A i, j \in 1..Len(types) : types[i] = types[j] => i = j
          /\ {types[i] : i \in 1..Len(types)} =
               {t \in FieldTypes : LastRegistered(regLog, t) /= "undefined"}

\* C12 witness: a type registered twice with different renderers answers
\* with the second, and a type registered only before a clearRegistry is
\* absent
C12_Witness ==
  /\ \E i, j \in 1..Len(regLog) :
       /\ i < j
       /\ regLog[i].op = "register" /\ regLog[j].op = "register"
       /\ regLog[i].type = regLog[j].type
       /\ regLog[i].component /= regLog[j].component
       /\ \A k \in i..Len(regLog) : regLog[k].op /= "clear"
       /\ getFieldComponent(components, regLog[j].type) = regLog[j].component
  /\ \E i, j \in 1..Len(regLog) :
       /\ i < j
       /\ regLog[i].op = "register" /\ regLog[j].op = "clear"
       /\ ~isFieldTypeSupported(components, regLog[i].type)

\* C13: render(field, context) returns the element of the renderer currently
\* registered for field.type and, for a type that was never registered or
\* was registered only before a clearRegistry, the element of the
\* unsupported-type placeholder, which gets the field (its id and type);
\* that placeholder is what the field shows unless the error boundary
\* mounted for the field had already caught an exception.
C13_RenderDispatches ==
  rlast = "render" =>
    /\ Len(elements) = Len(rfields)
    /\ \A i \in 1..Len(rfields) :
         LET registered == LastRegistered(regLog, rfields[i].type)
         IN /\ elements[i].fieldId = rfields[i].id
            /\ elements[i].field = rfields[i]
            /\ elements[i].component =
                 (IF registered /= "undefined" THEN registered ELSE UnsupportedFieldComponent)
            /\ (registered = "undefined" /\ ~boundaries[rfields[i].id]) =>
                 /\ screen[i].kind = "unsupported"
                 /\ screen[i].fieldId = rfields[i].id
                 /\ screen[i].type = rfields[i].type

\* C13 witness: the form was drawn after a clearRegistry; one field is drawn
\* by the renderer registered since, another, whose type was registered only
\* before the clearRegistry, by the unsupported-type placeholder
C13_Witness ==
  /\ rlast = "render"
  /\ \E i, j \in 1..Len(regLog), k \in 1..Len(rfields) :
       /\ i < j
       /\ regLog[i].op = "register" /\ regLog[j].op = "clear"
       /\ regLog[i].type = rfields[k].type
       /\ screen[k].kind = "unsupported"
  /\ \E k \in 1..Len(rfields) : screen[k].kind = "field"

\* C14: when the renderer of a field throws while the form is drawn, that
\* field shows the error placeholder carrying its id, every field whose
\* renderer has not thrown shows its own renderer's output, and the
\* exception does not leave the render of the form.
C14_ErrorContained ==
  /\ ~propagated
  /\ rlast = "render" =>
       /\ Len(screen) = Len(rfields)
       /\ \A i \in 1..Len(rfields) :
            IF elements[i].component = "CompThrows"
              THEN screen[i].kind = "error" /\ screen[i].fieldId = rfields[i].id
              ELSE boundaries[rfields[i].id] \/
                   (/\ screen[i].kind \in {"field", "unsupported"}
                    /\ screen[i].by = elements[i].component
                    /\ screen[i].fieldId = rfields[i].id)
       /\ \A f \in RenderedIds :
            boundaries[f] => \E i \in 1..Len(rfields) :
                               rfields[i].id = f /\ screen[i].kind = "error"

\* C14 witness: one field's renderer threw while the form was drawn and
\* another field shows the output of its own registered renderer
C14_Witness ==
  /\ rlast = "render"
  /\ \E i, j \in 1..Len(rfields) :
       /\ elements[i].component = "CompThrows"
       /\ screen[i].kind = "error"
       /\ screen[j].kind = "field"
       /\ screen[j].by \in {"CompA", "CompB"}

\* positions in the log of the registrations of type t the host made since
\* the last clearRegistry
HostRegistrations(log, t) == {i \in LiveRegistrations(log, t) : log[i].by = "host"}

\* the renderer the host's most recent such registration gave
LastHostRegistered(log, t) ==
  IF HostRegistrations(log, t) = {} THEN "undefined"
  ELSE log[CHOOSE i \in HostRegistrations(log, t) :
             \A j \in HostRegistrations(log, t) : j <= i].component

\* C28 (as claimed): a renderer the host registered for a built-in type is
\* the renderer getFieldComponent returns for that type, and the one a
\* render uses for the fields of that type, also after Forms have mounted
\* and run their built-in registration.
C28_HostRendererSurvivesMount ==
  \A t \in FieldTypes :
     LastHostRegistered(regLog, t) /= "undefined" =>
        /\ getFieldComponent(components, t) = LastHostRegistered(regLog, t)
        /\ rlast = "render" =>
             \A i \in 1..Len(rfields) :
                rfields[i].type = t => elements[i].component = LastHostRegistered(regLog, t)
(***************************************************************************)
(* Properties of the Form controller                                       *)
(***************************************************************************)
\* a value that is absent, undefined or the empty string
IsEmpty(v) == v \in {"undef", "empty"}

RequiredIds(fields) == {fields[i].id : i \in {j \in 1..Len(fields) : fields[j].required}}

\* two value maps hold the same value under every field id
SameValues(a, b) == \A f \in FormIds : a[f] = b[f]

LabelOf(fields, id) == fields[CHOOSE i \in 1..Len(fields) : fields[i].id = id].label

\* C1 (as claimed): of two submit() calls, the second made while the first
\* has not finished, only one reaches the external submit callback.
C1_OverlappingSubmitNotInvoked ==
  \A j, k \in 1..Len(invoked) : invoked[j].id \notin invoked[k].during

\* C2 (as claimed): at most one invocation of the external submit callback
\* is unresolved at any instant.
C2_AtMostOneUnresolved ==
  Cardinality({i \in 1..Len(subs) : subs[i].pc = "awaiting"}) <= 1

\* C3: every handleSubmit that got past its guard ends by setting
\* isSubmitting to false, whether validation failed or the callback resolved,
\* threw or rejected; isSubmitting is false whenever no handleSubmit is in
\* flight; and no exception leaves handleSubmit.
C3_SubmitAlwaysClears ==
  /\ [][Len(subs') < Len(subs) => ~st'.isSubmitting]_vars
  /\ [](subs = <<>> => ~st.isSubmitting)
  /\ [](~escaped)

\* C3 witness: a submission whose callback rejected has finished and
\* isSubmitting is false in the rendered state
C3_Witness ==
  /\ lastOutcome = "rejected"
  /\ subs = <<>>
  /\ ~busy
  /\ ~rd.isSubmitting

\* C4 (as claimed): once reset() has been called and rendered, values equal
\* the initial-values snapshot and isDirty is false.
C4_ResetRestores ==
  lastOp = "resetRendered" => (SameValues(rd.values, initialRef) /\ ~rd.isDirty)

\* C5 (as claimed): every value map passed to the external submit callback
\* has all required fields non-empty, and a submit() called when the form
\* holds an empty required field, counting every update made before the
\* call, never reaches the callback.
C5_CallbackOnlyWithRequiredFilled ==
  \A k \in 1..Len(invoked) :
    \A f \in RequiredIds(fschema) :
      ~IsEmpty(invoked[k].vals[f]) /\ ~IsEmpty(invoked[k].written[f])

\* the errors validate() should leave: "<label> is required" for exactly the
\* required fields that are empty
ExpectedErrors(fields, vals) ==
  [f \in FormIds |->
     IF f \in RequiredIds(fields) /\ IsEmpty(vals[f])
       THEN <<LabelOf(fields, f) \o " is required">>
       ELSE <<>>]

\* C6 (as claimed): validate() leaves an error entry "<label> is required"
\* for exactly the required fields that are empty in the values it was
\* called on, and returns isValid = true iff there is none.
C6_ValidateExactlyEmptyRequired ==
  lastOp = "validate" =>
    /\ st.errors = ExpectedErrors(fschema, lastValidate.vals)
    /\ lastValidate.errors = ExpectedErrors(fschema, lastValidate.vals)
    /\ lastValidate.isValid =
         (\A f \in RequiredIds(fschema) : ~IsEmpty(lastValidate.vals[f]))


(***************************************************************************)
(* Properties of the lifecycle callbacks                                   *)
(***************************************************************************)
CallsOf(log, name) == {i \in 1..Len(log) : log[i].callback = name}

\* C15 (as claimed): over the life of one Form instance the mount callback
\* is invoked exactly once and the unmount callback exactly once, mount
\* first, whatever re-renders and schema replacements happen while the form
\* is mounted.
C15_MountUnmountOnce ==
  /\ formMounted = "mounted" => lifeLog = <<LifeCall("mount", lifeLog[1].events)>>
  /\ formMounted = "unmounted" =>
       /\ Cardinality(CallsOf(lifeLog, "mount")) = 1
       /\ Cardinality(CallsOf(lifeLog, "unmount")) = 1
       /\ lifeLog[1].callback = "mount"

(***************************************************************************)
(* Properties of change                                                    *)
(***************************************************************************)
\* C16: in the Form of apps/mobile, change(fieldId, value) removes the error
\* entry of fieldId within the change itself, leaves the error entry of
\* every other field as it was, and does not re-validate (isValid is not
\* recomputed by the call).
C16_ChangeClearsOwnError ==
  [][\A id \in FormIds : \A value \in ChangeVals(id) : \A eager \in BOOLEAN :
       (variant = "mobile" /\ HandleChange(id, value, eager)) =>
          /\ st'.errors[id] = <<>>
          /\ \A other \in FormIds \ {id} : st'.errors[other] = st.errors[other]
          /\ st'.isValid = st.isValid]_vars

\* C16 witness: validate() reported both required fields empty, then the
\* first was edited: its entry is gone, the other's is still there, and
\* neither a render nor the validity timer has run since
C16_Witness ==
  /\ variant = "mobile"
  /\ IsEmpty(rd.values["name"]) /\ st.values["name"] = "x"
  /\ Len(timers) = 1
  /\ ~st.hasSubmitted
  /\ st.errors["name"] = <<>>
  /\ st.errors["bio"] = <<"Bio is required">>

\* C17 (as claimed): in every rendered state isDirty is true exactly when
\* the value map differs structurally from the initial-values snapshot.
C17_DirtyIffDiffers ==
  variant /= "off" => (rd.isDirty = ~SameValues(rd.values, initialRef))

\* nothing is left to run: no queued update, pending effect, timer or
\* unfinished submission
Quiescent ==
  /\ ~busy
  /\ ~lateDirty.on
  /\ effects = {}
  /\ timers = <<>>
  /\ subs = <<>>

\* C18 (as claimed): when the last call was a change and its validity pass
\* and the renders it caused have run, isValid is true exactly when every
\* required field is non-empty in the value map that includes the change.
C18_ValidityPassCurrent ==
  (variant = "mobile" /\ lastOp = "change" /\ Quiescent) =>
     (rd.isValid = (\A f \in RequiredIds(fschema) : ~IsEmpty(rd.values[f])))

(***************************************************************************)
(* Properties of reset                                                     *)
(***************************************************************************)
\* C19 (as claimed): from reset() until the next call on the form isValid
\* is true, in the queued state and in every render, whatever the initial
\* values are.
C19_ValidAfterReset ==
  lastOp \in {"reset", "resetRendered"} =>
    /\ st.isValid
    /\ lastOp = "resetRendered" => rd.isValid

(***************************************************************************)
(* Properties of error display                                             *)
(***************************************************************************)
\* C20 (as claimed): in every render made after a submit() (hasSubmitted is
\* set, no reset since), each field with a non-empty error list shows its
\* error messages, whether or not the field has been touched.
C20_SubmittedErrorsDisplayed ==
  (variant = "mobile" /\ rd.hasSubmitted) =>
     \A f \in FormIds :
        rd.errors[f] /= <<>> => displayedErrors(rd, f) = rd.errors[f]

\* C21: in every render, a field shows error text exactly when it is touched
\* and its error list is non-empty, and what it shows is that list; a field
\* with errors that is not touched shows none, and a touched field with an
\* empty error list shows none.
C21_ErrorsShownIffTouched ==
  variant /= "off" =>
    \A f \in FormIds :
       /\ (displayedErrors(rd, f) /= <<>>) = (rd.touched[f] /\ rd.errors[f] /= <<>>)
       /\ displayedErrors(rd, f) \in {<<>>, rd.errors[f]}

\* C21 witness: after blur("name") and validate() on an empty form, both
\* fields have an error; the touched one shows it, the untouched one does not
C21_Witness ==
  /\ variant /= "off"
  /\ rd.touched["name"] /\ rd.errors["name"] /= <<>>
  /\ displayedErrors(rd, "name") = rd.errors["name"]
  /\ ~rd.touched["bio"] /\ rd.errors["bio"] /= <<>>
  /\ displayedErrors(rd, "bio") = <<>>

(***************************************************************************)
(* Properties of submit                                                    *)
(***************************************************************************)
\* C24 (as claimed): the value map a submit() validates, and the one it
\* passes to the external submit callback, is the value map holding every
\* update made before the call.
C24_SubmitSeesEveryUpdate ==
  /\ \A i \in 1..Len(subs) : SameValues(subs[i].vals, subs[i].written)
  /\ \A k \in 1..Len(invoked) : SameValues(invoked[k].vals, invoked[k].written)

(***************************************************************************)
(* Properties of the initial-values snapshot                               *)
(***************************************************************************)
\* C25 (as claimed): when the parent supplies an initialValues object that
\* differs from the snapshot, then once the effect of that render has
\* replaced the snapshot, values are the new object and isDirty is false, in
\* the queued state and in the render once nothing is left to commit; what
\* reset() restores is the initialValues object supplied last, as soon as
\* the effects of the render that supplied it have run; and the snapshot
\* changes in no step other than such a replacement (no change, setValues,
\* validate, submit, reset, timer or render alters it).
C25_SnapshotFollowsProp ==
  /\ [](lastOp = "initialValues" =>
          /\ SameValues(st.values, initialValuesProp) /\ ~st.isDirty
          /\ (~busy /\ ~lateDirty.on /\ effects = {}) =>
                (SameValues(rd.values, initialValuesProp) /\ ~rd.isDirty))
  /\ []((lastOp = "reset" /\ "initialValues" \notin effects) =>
          SameValues(st.values, initialValuesProp))
  /\ []((lastOp = "resetRendered" /\ "initialValues" \notin effects) =>
          SameValues(rd.values, initialValuesProp))
  /\ [][initialRef' /= initialRef =>
          /\ "initialValues" \in effects
          /\ initialRef' = initialValuesProp
          /\ lastOp' = "initialValues"]_vars

\* C26 (as claimed): while an external submit callback started by this Form
\* is unresolved, isSubmitting is true, whatever submit() and reset() calls
\* are interleaved.
C26_SubmittingWhileUnresolved ==
  (\E i \in 1..Len(subs) : subs[i].pc = "awaiting") => st.isSubmitting

(***************************************************************************)
(* Properties of validate                                                  *)
(***************************************************************************)
\* C29 (as claimed): validate() gives a field an 'is required' error only
\* when the field is required and its value, in the values validate() read,
\* is absent or the empty string, and it reports the form invalid only when
\* there is such a field: the number 0 is a value like any other.
C29_RequiredOnlyWhenEmpty ==
  lastOp = "validate" =>
    /\ \A f \in FormIds :
         lastValidate.errors[f] /= <<>> =>
            (f \in RequiredIds(fschema) /\ IsEmpty(lastValidate.vals[f]))
    /\ (\A f \in RequiredIds(fschema) : ~IsEmpty(lastValidate.vals[f])) =>
         lastValidate.isValid

(***************************************************************************)
(* Properties of the Submit button                                         *)
(***************************************************************************)
\* every required field holds a value the required check accepts
RequiredFilled(vals) == \A f \in RequiredIds(fschema) : ~Falsy(vals[f])

\* C30 (as claimed): whenever every required field is filled and nothing is
\* left to run, whatever validate() or submit() found before, the Submit
\* button is pressable, and a press then yields a submission that is valid
\* and so goes on to the external submit callback.
C30_SubmitPressableOnceFilled ==
  /\ []((variant /= "off" /\ Quiescent /\ RequiredFilled(rd.values)) =>
          ~submitDisabled(variant, rd))
  /\ [][(Quiescent /\ RequiredFilled(rd.values) /\ ~submitDisabled(variant, rd)
           /\ HandleSubmit) =>
          (subs' /= <<>> /\ shouldInvoke(subs'[Len(subs')].result))]_vars
====
